---------------------------- MODULE Spec2Model ----------------------------
(***************************************************************************)
(* Model of the TikTok connectivity-test server (src/index.js, latest       *)
(* variant, lines 293-739): one inbound request at a time is taken through *)
(* its route handler, the outbound axios calls it awaits, asyncHandler and *)
(* the global error handler, up to the reply written on res.                *)
(*                                                                         *)
(* JavaScript values are records [t, s]: t is the type tag and s the       *)
(* characters of the value (a sequence of one-character strings; a         *)
(* multi-character element stands for that literal text).                  *)
(***************************************************************************)
EXTENDS Integers, Sequences, FiniteSets, TLC

(***************************************************************************)
(* Bounds of the model.                                                    *)
(***************************************************************************)
\* longest header / e-mail / phone string drawn as an input
MaxLen == 3
\* the clock runs from 0 to MaxClock
MaxClock == 1
\* crypto.randomBytes draws from 1..MaxRand
MaxRand == 2

(***************************************************************************)
(* JavaScript values.                                                      *)
(***************************************************************************)
Undefined == [t |-> "undefined", s |-> <<>>]
Null == [t |-> "null", s |-> <<>>]
Str(chars) == [t |-> "string", s |-> chars]
Num(digits) == [t |-> "number", s |-> digits]
NaN == Num(<<"NaN">>)
Zero == Num(<<"0">>)
\* a one-element array holding the string chars
Arr1(chars) == [t |-> "array", s |-> chars]

\* ToBoolean: what `!x`, `x && y`, `x || y` and `x ? a : b` test
Truthy(v) ==
  CASE v.t = "undefined" -> FALSE
    [] v.t = "null" -> FALSE
    [] v.t = "string" -> v.s # <<>>
    [] v.t = "number" -> v.s # <<"0">> /\ v.s # <<"NaN">>
    [] OTHER -> TRUE

\* a || b
Or(a, b) == IF Truthy(a) THEN a ELSE b

\* String(value)
ToStr(v) ==
  CASE v.t = "undefined" -> <<"undefined">>
    [] v.t = "null" -> <<"null">>
    [] OTHER -> v.s

Uppers == <<"A", "B", "C", "D", "E", "F", "G", "H", "I", "J", "K", "L", "M",
            "N", "O", "P", "Q", "R", "S", "T", "U", "V", "W", "X", "Y", "Z">>
Lowers == <<"a", "b", "c", "d", "e", "f", "g", "h", "i", "j", "k", "l", "m",
            "n", "o", "p", "q", "r", "s", "t", "u", "v", "w", "x", "y", "z">>
Digits == {"0", "1", "2", "3", "4", "5", "6", "7", "8", "9"}

LowerOf(c) ==
  IF \E i \in 1..Len(Uppers) : Uppers[i] = c
    THEN Lowers[CHOOSE i \in 1..Len(Uppers) : Uppers[i] = c]
    ELSE c

UpperOf(c) ==
  IF \E i \in 1..Len(Lowers) : Lowers[i] = c
    THEN Uppers[CHOOSE i \in 1..Len(Lowers) : Lowers[i] = c]
    ELSE c

\* String.prototype.toLowerCase / toUpperCase
toLowerCase(chars) == [i \in 1..Len(chars) |-> LowerOf(chars[i])]
toUpperCase(chars) == [i \in 1..Len(chars) |-> UpperOf(chars[i])]

IsSpace(c) == c = " "

RECURSIVE TrimLeft(_)
TrimLeft(chars) ==
  IF chars # <<>> /\ IsSpace(Head(chars)) THEN TrimLeft(Tail(chars)) ELSE chars

RECURSIVE TrimRight(_)
TrimRight(chars) ==
  IF chars # <<>> /\ IsSpace(chars[Len(chars)])
    THEN TrimRight(SubSeq(chars, 1, Len(chars) - 1))
    ELSE chars

\* String.prototype.trim
trim(chars) == TrimRight(TrimLeft(chars))

\* chars.split(",")[0]
RECURSIVE SplitFirst(_)
SplitFirst(chars) ==
  IF chars = <<>> \/ Head(chars) = ","
    THEN <<>>
    ELSE <<Head(chars)>> \o SplitFirst(Tail(chars))

\* crypto.createHash("sha256").update(text).digest("hex"): an injective
\* digest, written as the tag "sha256:" followed by the text digested
sha256(chars) == <<"sha256:">> \o chars

hashNoLower(value) == Str(sha256(trim(ToStr(value))))

\* const hash = (value) => ...
hash(value) == Str(sha256(toLowerCase(trim(ToStr(value)))))


\* a string literal of the source, kept as one piece of text
Lit(text) == Str(<<text>>)

RECURSIVE StripZeros(_)
StripZeros(chars) ==
  IF Len(chars) > 1 /\ Head(chars) = "0" THEN StripZeros(Tail(chars)) ELSE chars

\* Number(value), for the values drawn here: numbers, null, and strings of
\* digits, blanks and letters (StringToNumber trims, "" is 0, digits are the
\* number they spell, anything else is NaN)
Number(v) ==
  CASE v.t = "number" -> v
    [] v.t = "null" -> Zero
    [] v.t = "string" ->
         LET text == trim(v.s)
         IN  IF text = <<>> THEN Zero
             ELSE IF \A i \in 1..Len(text) : text[i] \in Digits
               THEN Num(StripZeros(text))
               ELSE NaN
    [] OTHER -> NaN

(***************************************************************************)
(* Objects are functions from the keys present to their values.            *)
(***************************************************************************)
EmptyObj == [k \in {} |-> Undefined]

\* ...(cond && { key: value }) and `if (cond) obj.key = value`
Opt(cond, key, value) == IF cond THEN key :> value ELSE EmptyObj

Has(obj, key) == key \in DOMAIN obj

\* obj.key (undefined when the key is absent)
Get(obj, key) == IF key \in DOMAIN obj THEN obj[key] ELSE Undefined

\* JSON.stringify of an object: a key whose value is undefined is left out
\* and a NaN is written as null
JSONStringify(obj) ==
  [k \in {x \in DOMAIN obj : obj[x] # Undefined} |->
     IF obj[k] = NaN THEN Null ELSE obj[k]]

(***************************************************************************)
(* The inbound request.                                                    *)
(***************************************************************************)
getClientIPNoSplit(r) ==
  Or(IF r.headers.xff = Undefined THEN Undefined ELSE Str(trim(r.headers.xff.s)),
     Or(r.headers.xRealIp, Or(r.ip, Or(r.remoteAddress, Lit("unknown")))))

\* const getClientIP = (req) => ...
getClientIP(r) ==
  Or(IF r.headers.xff = Undefined THEN Undefined
       ELSE Str(trim(SplitFirst(r.headers.xff.s))),
     Or(r.headers.xRealIp, Or(r.ip, Or(r.remoteAddress, Lit("unknown")))))

\* all strings of at most n characters of the alphabet
RECURSIVE Strings(_, _)
Strings(alphabet, n) ==
  IF n = 0 THEN {<<>>}
  ELSE LET shorter == Strings(alphabet, n - 1)
       IN  shorter \cup {<<c>> \o w : c \in alphabet, w \in {x \in shorter : Len(x) = n - 1}}

(***************************************************************************)
(* Program constants.                                                      *)
(***************************************************************************)
TIKTOK_API_BASE == "https://business-api.tiktok.com/open_api/v1.3"
REQUEST_TIMEOUT == 5000
GEO_TIMEOUT == 3000

providersThree ==
  << [name |-> "ifconfig.me", url |-> "https://ifconfig.me/all.json"],
     [name |-> "ip-api", url |-> "http://ip-api.com/json"],
     [name |-> "ipinfo", url |-> "https://ipinfo.io/json"] >>

providersSwapped ==
  << [name |-> "ip-api", url |-> "http://ip-api.com/json"],
     [name |-> "ifconfig.me", url |-> "https://ifconfig.me/all.json"] >>

\* the providers of GET /ip-check, in the order of the array
providers ==
  << [name |-> "ifconfig.me", url |-> "https://ifconfig.me/all.json"],
     [name |-> "ip-api", url |-> "http://ip-api.com/json"] >>

\* the allowlist of POST /test-track-tiktok
validEvents ==
  << "PageView", "ViewContent", "AddToCart", "InitiateCheckout", "PlaceAnOrder",
     "CompletePayment", "Contact", "SubmitForm", "Subscribe", "CompleteRegistration" >>

\* validEvents.includes(event)
includesEvent(event) ==
  \E i \in 1..Len(validEvents) : event = Lit(validEvents[i])

(***************************************************************************)
(* Errors: what a rejected axios call or a throwing statement carries.     *)
(***************************************************************************)
\* a TypeError thrown by the handler itself
TypeError(message) ==
  [isAxiosError |-> FALSE, message |-> Lit(message), code |-> Undefined,
   hasResponse |-> FALSE, data |-> Undefined]

\* axios: no response received (timeout, DNS failure, connection refused)
TransportError(code) ==
  [isAxiosError |-> TRUE, message |-> Lit(code), code |-> Lit(code),
   hasResponse |-> FALSE, data |-> Undefined]

\* axios: a response whose status validateStatus rejects
StatusError(status, data) ==
  [isAxiosError |-> TRUE,
   message |-> Str(<<"Request failed with status code ", ToString(status)>>),
   code |-> IF status >= 500 THEN Lit("ERR_BAD_RESPONSE") ELSE Lit("ERR_BAD_REQUEST"),
   hasResponse |-> TRUE, data |-> data]

\* axios' default validateStatus
defaultValidateStatus(status) == status >= 200 /\ status < 300

\* validateStatus: () => true
validateAny(status) == TRUE

\* a response body: a JSON object with its fields, or an empty body ("")
Data(fields) == [t |-> "object", fields |-> fields]
NoData == [t |-> "string", fields |-> EmptyObj]

\* response.data?.code
codeOf(data) == IF data.t = "object" THEN Get(data.fields, "code") ELSE Undefined

(***************************************************************************)
(* POST /test-track-tiktok: the handler up to its await.                   *)
(***************************************************************************)
\* event = "PageView" in the destructuring: the default stands for undefined only
eventOf(body) == IF body.event = Undefined THEN Lit("PageView") ELSE body.event

\* browserData = {} in the destructuring
browserDataOf(body) ==
  IF body.browserData.t = "undefined"
    THEN [t |-> "object", userAgent |-> Undefined, language |-> Undefined,
          referrer |-> Undefined]
    ELSE body.browserData

credentialsMissingPixelOnly(body) == ~Truthy(body.pixelId)

\* if (!pixelId || !accessToken)
credentialsMissing(body) == ~Truthy(body.pixelId) \/ ~Truthy(body.accessToken)

validationReplyEcho(body) ==
  [status |-> 400,
   body |-> ("success" :> FALSE) @@ ("error" :> Lit("Validation failed")) @@
            ("details" :>
               [pixelId |-> IF ~Truthy(body.pixelId) THEN Lit("Required") ELSE body.pixelId,
                accessToken |->
                  IF ~Truthy(body.accessToken) THEN Lit("Required") ELSE body.accessToken])]

validationReply(body) ==
  [status |-> 400,
   body |-> ("success" :> FALSE) @@ ("error" :> Lit("Validation failed")) @@
            ("details" :>
               [pixelId |-> IF ~Truthy(body.pixelId) THEN Lit("Required") ELSE Lit("OK"),
                accessToken |->
                  IF ~Truthy(body.accessToken) THEN Lit("Required") ELSE Lit("OK")])]

invalidEventReply ==
  [status |-> 400,
   body |-> ("success" :> FALSE) @@ ("error" :> Lit("Invalid event type. Valid types: ..."))]

eventIdAlwaysSynthesized(body, clock, rnd) ==
  Str(<<"evt_", ToString(clock), "_", ToString(rnd)>>)

\* frontendEventId || `evt_${Date.now()}_${crypto.randomBytes(4).toString("hex")}`
eventIdOf(body, clock, rnd) ==
  Or(body.eventId, Str(<<"evt_", ToString(clock), "_", ToString(rnd)>>))

\* browserData.userAgent || req.get("User-Agent") || "Mozilla/5.0"
userAgentOf(r) ==
  Or(browserDataOf(r.body).userAgent, Or(r.headers.userAgent, Lit("Mozilla/5.0")))

externalIdAlwaysRandom(body, rnd) == Str(<<"user_", ToString(rnd)>>)

\* email ? hash(email) : `user_${crypto.randomBytes(8).toString("hex")}`
externalIdOf(body, rnd) ==
  IF Truthy(body.email) THEN hash(body.email) ELSE Str(<<"user_", ToString(rnd)>>)

warningsOf(body) ==
  (IF ~Truthy(body.ttp) THEN << Lit("Missing _ttp cookie - Load TikTok Pixel first for better matching") >> ELSE <<>>) \o
  (IF ~Truthy(body.email) /\ ~Truthy(body.phone)
     THEN << Lit("No email/phone provided - Event matching may be limited") >> ELSE <<>>)

userObjectOf(r, rnd) ==
  LET body == r.body
      browserData == browserDataOf(body)
      externalId == externalIdOf(body, rnd)
  IN  ("user_agent" :> userAgentOf(r)) @@ ("ip" :> getClientIP(r)) @@
      Opt(Truthy(externalId), "external_id", externalId) @@
      Opt(Truthy(browserData.language), "locale", browserData.language) @@
      Opt(Truthy(body.email), "email", Arr1(hash(body.email).s)) @@
      Opt(Truthy(body.phone), "phone_number", Arr1(hash(body.phone).s)) @@
      Opt(Truthy(body.ttclid), "ttclid", body.ttclid) @@
      Opt(Truthy(body.ttp), "ttp", body.ttp)

pageOf(body) ==
  LET browserData == browserDataOf(body)
  IN  ("url" :> Or(body.url, Lit("https://example.com"))) @@
      Opt(Truthy(browserData.referrer) /\ browserData.referrer # Lit("Direct"),
          "referrer", browserData.referrer)

propertiesOf(body) ==
  Opt(Truthy(body.currency), "currency", Str(toUpperCase(body.currency.s))) @@
  Opt(Truthy(body.value), "value", Number(body.value)) @@
  ("content_type" :> Lit("product"))

payloadOf(r, clock, rndEvent, rndUser) ==
  [top |-> ("event_source" :> Lit("web")) @@ ("event_source_id" :> r.body.pixelId) @@
           Opt(Truthy(r.body.testEventCode), "test_event_code", r.body.testEventCode),
   event |-> ("event" :> eventOf(r.body)) @@
             ("event_time" :> Num(<<ToString(clock \div 1000)>>)) @@
             ("event_id" :> eventIdOf(r.body, clock, rndEvent)),
   page |-> pageOf(r.body),
   user |-> userObjectOf(r, rndUser),
   properties |-> propertiesOf(r.body)]

\* what axios writes on the wire for the payload
wireOf(payload) ==
  [top |-> JSONStringify(payload.top),
   event |-> JSONStringify(payload.event),
   page |-> JSONStringify(payload.page),
   user |-> JSONStringify(payload.user),
   properties |-> JSONStringify(payload.properties)]

(***************************************************************************)
(* The requests and the outcomes of outbound calls that are drawn.         *)
(***************************************************************************)
NoBrowserData ==
  [t |-> "undefined", userAgent |-> Undefined, language |-> Undefined,
   referrer |-> Undefined]

BaseBody ==
  [pixelId |-> Lit("p1"), accessToken |-> Lit("t1"), testEventCode |-> Undefined,
   event |-> Lit("PageView"), eventId |-> Lit("e1"), url |-> Undefined,
   email |-> Str(<<"a">>), phone |-> Undefined, value |-> Undefined,
   currency |-> Undefined, ttclid |-> Undefined, ttp |-> Lit("ttp1"),
   browserData |-> NoBrowserData]

BaseRequest ==
  [headers |-> [xff |-> Undefined, xRealIp |-> Undefined, userAgent |-> Lit("curl")],
   ip |-> Lit("3.3.3.3"), remoteAddress |-> Lit("4.4.4.4"), body |-> BaseBody]

CredentialValues(text) == {Undefined, Null, Str(<<>>), Zero, Lit(text)}

EventValues ==
  {Undefined, Null, Str(<<>>), Lit("pageview"), Lit("Purchase")} \cup
  {Lit(validEvents[i]) : i \in 1..Len(validEvents)}

EmailValues == {Undefined, Null} \cup {Str(w) : w \in Strings({"A", "a", " "}, MaxLen)}

PhoneValues ==
  {Undefined, Str(<<>>), Str(<<"1">>), Str(<<" ", "1">>), Str(<<"X">>), Str(<<"x">>)}

ValueValues ==
  {Undefined, Null, Zero, Num(<<"12">>), Str(<<>>), Str(<<"0">>), Str(<<" ">>),
   Str(<<" ", "1", "2">>), Str(<<"1", "x">>)}

CurrencyValues ==
  {Undefined, Null, Str(<<>>), Str(<<"u", "s", "d">>), Str(<<"U", "s", "d">>),
   Num(<<"5">>)}

BrowserDataValues ==
  {NoBrowserData, [NoBrowserData EXCEPT !.t = "null"]} \cup
  {[t |-> "object", userAgent |-> ua, language |-> la, referrer |-> re] :
     ua \in {Undefined, Str(<<>>), Lit("UA"), Num(<<"5">>)},
     la \in {Undefined, Str(<<>>), Lit("en")},
     re \in {Undefined, Str(<<>>), Lit("Direct"), Lit("https://ref")}}

XffValues == {Undefined} \cup {Str(w) : w \in Strings({"1", ",", " "}, MaxLen)}

CredentialRequests ==
  {[BaseRequest EXCEPT !.body.pixelId = p, !.body.accessToken = a, !.body.event = e] :
     p \in CredentialValues("p1"), a \in CredentialValues("t1"), e \in EventValues}

IdentityRequests ==
  {[BaseRequest EXCEPT !.body.email = e, !.body.phone = p, !.body.ttp = c] :
     e \in EmailValues, p \in PhoneValues, c \in {Undefined, Lit("ttp1")}}

PropertyRequests ==
  {[BaseRequest EXCEPT !.body.value = v, !.body.currency = c,
                       !.body.testEventCode = t] :
     v \in ValueValues, c \in CurrencyValues,
     t \in {Undefined, Str(<<>>), Lit("TEST1")}}

AttributionRequests ==
  {[BaseRequest EXCEPT !.body.url = u, !.body.ttclid = c, !.body.eventId = i,
                       !.body.ttp = t, !.body.email = e] :
     u \in {Undefined, Str(<<>>), Lit("https://shop")},
     c \in {Undefined, Str(<<>>), Lit("c1")},
     i \in {Undefined, Null, Str(<<>>), Lit("e1")},
     t \in {Undefined, Str(<<>>), Lit("ttp1")},
     e \in {Undefined, Str(<<"a">>)}}

BrowserRequests ==
  {[BaseRequest EXCEPT !.body.browserData = b, !.headers.userAgent = h] :
     b \in BrowserDataValues, h \in {Undefined, Lit("curl")}}

HeaderRequests ==
  {[BaseRequest EXCEPT !.headers.xff = f, !.headers.xRealIp = x, !.ip = i,
                       !.remoteAddress = a] :
     f \in XffValues, x \in {Undefined, Str(<<>>), Lit("2.2.2.2")},
     i \in {Undefined, Lit("3.3.3.3")}, a \in {Undefined, Lit("4.4.4.4")}}

TrackRequests ==
  CredentialRequests \cup IdentityRequests \cup PropertyRequests \cup
  AttributionRequests \cup BrowserRequests \cup HeaderRequests

Statuses == {200, 204, 304, 401, 403, 404, 500}

Datas ==
  {Data(("code" :> Zero) @@ ("message" :> Lit("OK"))),
   Data(("code" :> Num(<<"40001">>)) @@ ("message" :> Lit("error"))),
   Data(("code" :> Lit("0")) @@ ("message" :> Lit("OK"))),
   Data("status" :> Lit("success")),
   NoData}

\* an outbound call ends with a response or with a transport failure
Outcomes ==
  {[kind |-> "response", status |-> 200, data |-> d, code |-> ""] : d \in Datas} \cup
  {[kind |-> "response", status |-> s,
    data |-> IF s \in {204, 304} THEN NoData
             ELSE Data(("code" :> Num(<<"40001">>)) @@ ("message" :> Lit("error"))),
    code |-> ""] : s \in Statuses \ {200}} \cup
  {[kind |-> "failure", status |-> 0, data |-> NoData, code |-> c] :
     c \in {"ECONNABORTED", "ENOTFOUND", "ECONNREFUSED"}}

(***************************************************************************)
(* State.                                                                  *)
(***************************************************************************)
VARIABLES
  pc,      \* "idle": no request; "await": the handler awaits calls[Len(calls)];
           \* "done": the handler has returned
  route,   \* the route of the request being served
  req,     \* the request being served
  locals,  \* the handler's local variables that live across its await
  calls,   \* the outbound calls issued for this request, in order
  got,     \* the outcomes of the calls that have ended, in order
  res,     \* the replies written for this request, in order
  now,     \* Date.now()
  prev     \* the identifiers an earlier request synthesized (kept for comparison)

vars == <<pc, route, req, locals, calls, got, res, now, prev>>

NoPayload ==
  [top |-> EmptyObj, event |-> EmptyObj, page |-> EmptyObj, user |-> EmptyObj,
   properties |-> EmptyObj]

NoLocals ==
  [i |-> 0, errors |-> <<>>, clientIP |-> Undefined, eventId |-> Undefined,
   warnings |-> <<>>, payload |-> NoPayload]

\* no identifier synthesized
NoIds == [at |-> 0, eventId |-> Undefined, externalId |-> Undefined]

Init ==
  /\ pc = "idle"
  /\ route = "none"
  /\ req = BaseRequest
  /\ locals = NoLocals
  /\ calls = <<>>
  /\ got = <<>>
  /\ res = <<>>
  /\ now = 0
  /\ prev = NoIds

\* an axios call as issued
Call(method, url, timeout, validate, accessToken, body) ==
  [method |-> method, url |-> url, timeout |-> timeout, validate |-> validate,
   accessToken |-> accessToken, body |-> body]

\* whether the promise of the call resolves with outcome o (it rejects otherwise)
resolvesAnyResponse(call, o) == o.kind = "response"

resolves(call, o) ==
  /\ o.kind = "response"
  /\ IF call.validate = "any" THEN validateAny(o.status)
                              ELSE defaultValidateStatus(o.status)

\* the error a rejected call carries
errorOf(o) ==
  IF o.kind = "failure" THEN TransportError(o.code) ELSE StatusError(o.status, o.data)

errorHandlerAlways500(err) ==
  [status |-> 500,
   body |-> ("success" :> FALSE) @@
            ("error" :> Or(err.message, Lit("Internal server error")))]

\* app.use((err, req, res, next) => ...), reached through asyncHandler's catch(next)
errorHandler(err) ==
  IF err.isAxiosError
    THEN [status |-> 502,
          body |-> ("success" :> FALSE) @@
                   ("error" :> Lit("External API request failed")) @@
                   ("details" :>
                      [message |-> err.message, code |-> err.code,
                       tiktokError |-> IF err.hasResponse THEN err.data ELSE Undefined])]
    ELSE [status |-> 500,
          body |-> ("success" :> FALSE) @@
                   ("error" :> Or(err.message, Lit("Internal server error")))]

\* the handler replies and returns
Reply(reply) ==
  /\ res' = Append(res, reply)
  /\ pc' = "done"

\* the handler issues a call and awaits it
Await(call) ==
  /\ calls' = Append(calls, call)
  /\ pc' = "await"

(***************************************************************************)
(* GET /api                                                                *)
(***************************************************************************)
Api ==
  /\ pc = "idle"
  /\ route' = "/api"
  /\ Reply([status |-> 200,
            body |-> ("status" :> Lit("ok")) @@
                     ("service" :> Lit("tiktok-connectivity-test")) @@
                     ("timestamp" :> Str(<<ToString(now)>>))])
  /\ UNCHANGED <<req, locals, calls, got, now, prev>>

(***************************************************************************)
(* GET /api/server-info                                                    *)
(***************************************************************************)
ServerInfoStart ==
  /\ pc = "idle"
  /\ \E r \in HeaderRequests :
       /\ req' = r
       /\ locals' = [NoLocals EXCEPT !.clientIP = getClientIP(r)]
       /\ Await(Call("GET", <<"http://ip-api.com/json/">> \o getClientIP(r).s,
                     GEO_TIMEOUT, "default", Undefined, EmptyObj))
  /\ route' = "/api/server-info"
  /\ UNCHANGED <<got, res, now, prev>>

ServerInfoResume ==
  /\ pc = "await"
  /\ route = "/api/server-info"
  /\ \E o \in Outcomes :
       /\ got' = Append(got, o)
       /\ LET ok == resolves(calls[Len(calls)], o)
              located == ok /\ o.data.t = "object"
                            /\ Get(o.data.fields, "status") = Lit("success")
          IN  Reply([status |-> 200,
                     body |-> ("clientIP" :> locals.clientIP) @@
                              ("location" :> IF located THEN Lit("city, country")
                                                        ELSE Lit("Unknown")) @@
                              ("userAgent" :> Or(req.headers.userAgent, Lit("Unknown"))) @@
                              ("headers" :>
                                 [xff |-> Or(req.headers.xff, Lit("not set")),
                                  xRealIp |-> Or(req.headers.xRealIp, Lit("not set"))])])
  /\ UNCHANGED <<route, req, locals, calls, now, prev>>

(***************************************************************************)
(* GET /ip-check                                                           *)
(***************************************************************************)
ipCheckCall(i) ==
  Call("GET", <<providers[i].url>>, REQUEST_TIMEOUT, "default", Undefined, EmptyObj)

IpCheckStart ==
  /\ pc = "idle"
  /\ route' = "/ip-check"
  /\ locals' = [NoLocals EXCEPT !.i = 1]
  /\ Await(ipCheckCall(1))
  /\ UNCHANGED <<req, got, res, now, prev>>

IpCheckResume ==
  /\ pc = "await"
  /\ route = "/ip-check"
  /\ \E o \in Outcomes :
       /\ got' = Append(got, o)
       /\ LET i == locals.i
              errors == Append(locals.errors,
                               [provider |-> Lit(providers[i].name),
                                error |-> errorOf(o).message])
          IN  IF resolves(calls[Len(calls)], o)
                THEN /\ Reply([status |-> 200,
                               body |-> ("provider" :> Lit(providers[i].name)) @@
                                        ("data" :> o.data)])
                     /\ UNCHANGED <<locals, calls>>
                ELSE IF i < Len(providers)
                  THEN /\ locals' = [locals EXCEPT !.i = i + 1, !.errors = errors]
                       /\ Await(ipCheckCall(i + 1))
                       /\ UNCHANGED res
                  ELSE /\ locals' = [locals EXCEPT !.errors = errors]
                       /\ Reply([status |-> 500,
                                 body |-> ("error" :> Lit("All IP providers failed")) @@
                                          ("hint" :> Lit("Outbound networking may be blocked")) @@
                                          ("details" :> errors)])
                       /\ UNCHANGED calls
  /\ UNCHANGED <<route, req, now, prev>>

(***************************************************************************)
(* GET /tiktok-business-test and GET /tiktok-events-test                   *)
(***************************************************************************)
isReachableAnyResponse(status) == TRUE

\* const isReachable = response.status >= 200 && response.status < 500
isReachable(status) == status >= 200 /\ status < 500

businessInterpretationNo403(status) ==
  IF status = 401
    THEN Lit("SUCCESS: TikTok API reachable (auth expected)")
    ELSE IF status >= 200 /\ status < 300
      THEN Lit("SUCCESS: TikTok API reachable")
      ELSE IF isReachable(status)
        THEN Lit("Reachable but unexpected status")
        ELSE Lit("Server error from TikTok")

businessInterpretation(status) ==
  IF status = 401 \/ status = 403
    THEN Lit("SUCCESS: TikTok API reachable (auth expected)")
    ELSE IF status >= 200 /\ status < 300
      THEN Lit("SUCCESS: TikTok API reachable")
      ELSE IF isReachable(status)
        THEN Lit("Reachable but unexpected status")
        ELSE Lit("Server error from TikTok")

eventsInterpretation(status) ==
  IF status >= 400 /\ status < 500
    THEN Lit("SUCCESS: Events API reachable (auth/data error expected)")
    ELSE Lit("Unexpected response")

BusinessTestStart ==
  /\ pc = "idle"
  /\ route' = "/tiktok-business-test"
  /\ Await(Call("GET", <<TIKTOK_API_BASE, "/pixel/list/">>, REQUEST_TIMEOUT, "any",
                Undefined, EmptyObj))
  /\ UNCHANGED <<req, locals, got, res, now, prev>>

EventsTestStart ==
  /\ pc = "idle"
  /\ route' = "/tiktok-events-test"
  /\ Await(Call("POST", <<TIKTOK_API_BASE, "/event/track/">>, REQUEST_TIMEOUT, "any",
                Undefined, EmptyObj))
  /\ UNCHANGED <<req, locals, got, res, now, prev>>

probeReply(status, interpretation) ==
  [status |-> 200,
   body |-> ("reachable" :> isReachable(status)) @@ ("httpStatus" :> status) @@
            ("interpretation" :> interpretation)]

BusinessTestResume ==
  /\ pc = "await"
  /\ route = "/tiktok-business-test"
  /\ \E o \in Outcomes :
       /\ got' = Append(got, o)
       /\ IF resolves(calls[Len(calls)], o)
            THEN Reply(probeReply(o.status, businessInterpretation(o.status)))
            ELSE Reply(errorHandler(errorOf(o)))
  /\ UNCHANGED <<route, req, locals, calls, now, prev>>

EventsTestResume ==
  /\ pc = "await"
  /\ route = "/tiktok-events-test"
  /\ \E o \in Outcomes :
       /\ got' = Append(got, o)
       /\ IF resolves(calls[Len(calls)], o)
            THEN Reply(probeReply(o.status, eventsInterpretation(o.status)))
            ELSE Reply(errorHandler(errorOf(o)))
  /\ UNCHANGED <<route, req, locals, calls, now, prev>>

(***************************************************************************)
(* POST /test-track-tiktok                                                 *)
(***************************************************************************)
\* the statements of the handler before its await that throw a TypeError
throwsBeforeCall(body) ==
  \/ body.browserData.t = "null"
  \/ Truthy(body.currency) /\ body.currency.t # "string"

trackCall(r, payload) ==
  Call("POST", <<TIKTOK_API_BASE, "/event/track/">>, REQUEST_TIMEOUT, "default",
       r.body.accessToken, wireOf(payload))

TrackStartOn(requests) ==
  /\ pc = "idle"
  /\ route' = "/test-track-tiktok"
  /\ \E r \in requests, rndEvent \in 1..MaxRand, rndUser \in 1..MaxRand :
       /\ req' = r
       /\ IF credentialsMissing(r.body)
            THEN /\ Reply(validationReply(r.body))
                 /\ UNCHANGED <<locals, calls>>
          ELSE IF ~includesEvent(eventOf(r.body))
            THEN /\ Reply(invalidEventReply)
                 /\ UNCHANGED <<locals, calls>>
          ELSE IF throwsBeforeCall(r.body)
            THEN /\ Reply(errorHandler(TypeError("TypeError")))
                 /\ UNCHANGED <<locals, calls>>
          ELSE LET payload == payloadOf(r, now, rndEvent, rndUser)
               IN  /\ locals' = [NoLocals EXCEPT
                                   !.clientIP = getClientIP(r),
                                   !.eventId = eventIdOf(r.body, now, rndEvent),
                                   !.warnings = warningsOf(r.body),
                                   !.payload = payload]
                   /\ Await(trackCall(r, payload))
                   /\ UNCHANGED res
  /\ UNCHANGED <<got, now, prev>>

TrackStart == TrackStartOn(TrackRequests)

isSuccessLoose(data) == codeOf(data) \in {Zero, Lit("0")}

\* const tiktokCode = response.data?.code; const isSuccess = tiktokCode === 0
isSuccess(data) == codeOf(data) = Zero

\* userObject.user_agent?.substring(0, 50) + "..."
userAgentShown(userAgent) ==
  Str(SubSeq(userAgent.s, 1, IF Len(userAgent.s) < 50 THEN Len(userAgent.s) ELSE 50)
      \o <<"...">>)

trackReply(r, loc, data) ==
  LET payload == loc.payload
      userObject == payload.user
      flag(key, set) == IF Has(userObject, key) THEN Lit(set) ELSE Lit("NOT SET")
  IN  [status |-> 200,
       body |->
         ("success" :> isSuccess(data)) @@
         ("eventId" :> loc.eventId) @@
         Opt(Len(loc.warnings) > 0, "warnings", loc.warnings) @@
         ("tiktokResponse" :> data) @@
         ("payloadSent" :>
            [event_source |-> payload.top["event_source"],
             event_source_id |-> payload.top["event_source_id"],
             test_event_code |-> Or(Get(payload.top, "test_event_code"), Lit("NOT SET")),
             event |-> payload.event["event"],
             event_time |-> payload.event["event_time"],
             event_id |-> payload.event["event_id"],
             page_url |-> payload.page["url"],
             user |->
               [ip |-> userObject["ip"],
                user_agent |-> userAgentShown(userObject["user_agent"]),
                external_id |-> flag("external_id", "SET"),
                email |-> flag("email", "HASHED"),
                phone_number |-> flag("phone_number", "HASHED"),
                ttp |-> Or(Get(userObject, "ttp"), Lit("NOT SET")),
                ttclid |-> Or(Get(userObject, "ttclid"), Lit("NOT SET")),
                locale |-> Or(Get(userObject, "locale"), Lit("NOT SET"))]]) @@
         ("help" :> IF ~Truthy(r.body.ttp) THEN Lit("_ttp cookie missing")
                                           ELSE Lit("_ttp cookie included")) @@
         ("debug" :> [testEventCodeUsed |-> Truthy(r.body.testEventCode)])]

TrackResume ==
  /\ pc = "await"
  /\ route = "/test-track-tiktok"
  /\ \E o \in Outcomes :
       /\ got' = Append(got, o)
       /\ IF ~resolves(calls[Len(calls)], o)
            THEN Reply(errorHandler(errorOf(o)))
            ELSE IF locals.payload.user["user_agent"].t # "string"
              THEN Reply(errorHandler(TypeError("TypeError")))
              ELSE Reply(trackReply(req, locals, o.data))
  /\ UNCHANGED <<route, req, locals, calls, now, prev>>

(***************************************************************************)
(* The request is over; the next one arrives in the same millisecond or    *)
(* later.                                                                  *)
(***************************************************************************)
Over ==
  /\ pc = "done"
  /\ pc' = "idle"
  /\ route' = "none"
  /\ req' = BaseRequest
  /\ locals' = NoLocals
  /\ calls' = <<>>
  /\ got' = <<>>
  /\ res' = <<>>
  /\ \E t \in {now, now + 1} : t <= MaxClock /\ now' = t

Finish ==
  /\ Over
  /\ UNCHANGED prev

Next ==
  \/ Api
  \/ ServerInfoStart
  \/ ServerInfoResume
  \/ IpCheckStart
  \/ IpCheckResume
  \/ BusinessTestStart
  \/ BusinessTestResume
  \/ EventsTestStart
  \/ EventsTestResume
  \/ TrackStart
  \/ TrackResume
  \/ Finish

Spec == Init /\ [][Next]_vars

(***************************************************************************)
(* Every outbound call carries a timeout, so its promise settles and the   *)
(* handler that awaits it is resumed.                                      *)
(***************************************************************************)
Settle ==
  \/ ServerInfoResume
  \/ IpCheckResume
  \/ BusinessTestResume
  \/ EventsTestResume
  \/ TrackResume

LiveSpec == Spec /\ WF_vars(Settle)

(***************************************************************************)
(* Two requests to POST /test-track-tiktok compared: the identifiers an    *)
(* earlier request synthesized are kept when it is over.                   *)
(***************************************************************************)
\* requests that supply or leave out eventId and email
IdRequests ==
  {[BaseRequest EXCEPT !.body.eventId = i, !.body.email = e] :
     i \in {Undefined, Str(<<>>), Lit("e1"), Lit("e2")},
     e \in {Undefined, Str(<<>>), Str(<<"a">>), Str(<<"A", " ">>)}}

TrackStartIds == TrackStartOn(IdRequests)

\* the identifiers the request being served synthesized and sent, with the
\* time of their making
idsOf ==
  [at |-> now,
   eventId |-> IF Len(calls) = 1 /\ ~Truthy(req.body.eventId)
                 THEN locals.payload.event["event_id"] ELSE Undefined,
   externalId |-> IF Len(calls) = 1 /\ ~Truthy(req.body.email)
                    THEN locals.payload.user["external_id"] ELSE Undefined]

\* the request is over and its identifiers are kept, or those of an earlier one
Remember ==
  /\ Over
  /\ \E ids \in {prev, idsOf} : prev' = ids

NextIds ==
  \/ TrackStartIds
  \/ TrackResume
  \/ Remember

SpecIds == Init /\ [][NextIds]_vars

(***************************************************************************)
(* Properties.                                                             *)
(***************************************************************************)
Track == route = "/test-track-tiktok"
IpCheck == route = "/ip-check"

\* a body field that is missing (undefined, null) or empty ("")
MissingOrEmpty(v) == v \in {Undefined, Null, Str(<<>>)}

\* the event the handler validates: an omitted event counts as "PageView"
EventGiven(body) == IF body.event = Undefined THEN Lit("PageView") ELSE body.event

Allowlisted(event) == event \in {Lit(validEvents[i]) : i \in 1..Len(validEvents)}

\* C1: POST /test-track-tiktok with pixelId or accessToken missing or empty,
\* or with an event outside the 10 allowlisted types, is answered 400 with no
\* outbound call; when a credential is missing the body has a details map
\* with an entry for pixelId and for accessToken, each "Required" or "OK".
C1_ValidationFailureIs400WithoutCalls ==
  (Track /\ pc # "idle") =>
    LET body == req.body
        missing == MissingOrEmpty(body.pixelId) \/ MissingOrEmpty(body.accessToken)
        entry(given, shown) ==
          /\ shown \in {Lit("Required"), Lit("OK")}
          /\ MissingOrEmpty(given) => shown = Lit("Required")
          /\ (given.t = "string" /\ given.s # <<>>) => shown = Lit("OK")
    IN  /\ Len(validEvents) = 10
        /\ (missing \/ ~Allowlisted(EventGiven(body))) =>
             /\ pc = "done"
             /\ calls = <<>>
             /\ Len(res) = 1
             /\ res[1].status = 400
        /\ missing =>
             /\ Has(res[1].body, "details")
             /\ DOMAIN res[1].body["details"] = {"pixelId", "accessToken"}
             /\ entry(body.pixelId, res[1].body["details"].pixelId)
             /\ entry(body.accessToken, res[1].body["details"].accessToken)

\* C1 witness: pixelId is empty, accessToken is given: 400, no call, and the
\* details map says which of the two is required.
C1_Witness ==
  /\ Track /\ pc = "done"
  /\ req.body.pixelId = Str(<<>>)
  /\ req.body.accessToken = Lit("t1")
  /\ calls = <<>>
  /\ res[1].status = 400
  /\ res[1].body["details"].pixelId = Lit("Required")
  /\ res[1].body["details"].accessToken = Lit("OK")

\* a call outcome that is a response with a 2xx status
Is2xx(o) == o.kind = "response" /\ o.status >= 200 /\ o.status <= 299

\* C2: GET /ip-check calls the providers in list order (ifconfig.me, then
\* ip-api), the second only after the first has failed; on the first success
\* the reply is 200 with the name of the provider that succeeded and no
\* details of earlier failures; if both fail the reply is 500 with exactly
\* two details entries, one per provider, in provider order.
C2_ProvidersInOrder ==
  IpCheck =>
    /\ Len(calls) \in 1..2
    /\ calls[1].url = <<"https://ifconfig.me/all.json">>
    /\ Len(calls) = 2 =>
         /\ calls[2].url = <<"http://ip-api.com/json">>
         /\ Len(got) >= 1
         /\ ~Is2xx(got[1])
    /\ pc = "done" =>
         /\ Len(res) = 1
         /\ Len(got) = Len(calls)
         /\ IF Is2xx(got[Len(got)])
              THEN /\ res[1].status = 200
                   /\ res[1].body["provider"] =
                        Lit(<<"ifconfig.me", "ip-api">>[Len(got)])
                   /\ DOMAIN res[1].body = {"provider", "data"}
              ELSE /\ Len(got) = 2
                   /\ res[1].status = 500
                   /\ Len(res[1].body["details"]) = 2
                   /\ res[1].body["details"][1].provider = Lit("ifconfig.me")
                   /\ res[1].body["details"][2].provider = Lit("ip-api")

\* C2 witness: the first provider timed out and the second answered 200.
C2_Witness ==
  /\ IpCheck /\ pc = "done"
  /\ Len(got) = 2
  /\ got[1].kind = "failure" /\ got[1].code = "ECONNABORTED"
  /\ Is2xx(got[2])
  /\ res[1].status = 200
  /\ res[1].body["provider"] = Lit("ip-api")

\* C3 as stated: in the /ip-check probe every HTTP response, whatever its
\* status, counts as a success: the probe replies 200 with that provider's
\* name and body and calls no further provider; only transport failures are
\* recorded as errors and fall back to the next provider.
C3_AnyResponseIsSuccess ==
  IpCheck =>
    \A k \in 1..Len(got) :
      IF got[k].kind = "response"
        THEN /\ Len(calls) = k
             /\ pc = "done"
             /\ res[1].status = 200
             /\ res[1].body["provider"] = Lit(<<"ifconfig.me", "ip-api">>[k])
             /\ res[1].body["data"] = got[k].data
        ELSE /\ Len(locals.errors) >= k
             /\ locals.errors[k].provider = Lit(<<"ifconfig.me", "ip-api">>[k])

\* C3 amended: in the /ip-check probe a provider counts as a success when a
\* response with a 2xx status is received from it: the probe then replies 200
\* with that provider's name and body and calls no further provider; a
\* response with any other status is recorded as an error like a transport
\* failure (timeout, DNS, connection refused) and falls back to the next
\* provider.
C3_Only2xxIsSuccess ==
  IpCheck =>
    \A k \in 1..Len(got) :
      IF Is2xx(got[k])
        THEN /\ Len(calls) = k
             /\ pc = "done"
             /\ res[1].status = 200
             /\ res[1].body["provider"] = Lit(<<"ifconfig.me", "ip-api">>[k])
             /\ res[1].body["data"] = got[k].data
        ELSE /\ Len(locals.errors) >= k
             /\ locals.errors[k].provider = Lit(<<"ifconfig.me", "ip-api">>[k])
             /\ k = 1 => Len(calls) = 2
             /\ k = 2 => res[1].status = 500

\* C3 witness: the first provider answered 404, which was recorded as an
\* error, and the second provider was called and answered 200.
C3_Witness ==
  /\ IpCheck /\ pc = "done"
  /\ Len(got) = 2
  /\ got[1].kind = "response" /\ got[1].status = 404
  /\ locals.errors[1].provider = Lit("ifconfig.me")
  /\ Is2xx(got[2])
  /\ res[1].status = 200
  /\ res[1].body["provider"] = Lit("ip-api")

\* the code field of a response body is the number 0
CodeIsZero(data) ==
  /\ data.t = "object"
  /\ "code" \in DOMAIN data.fields
  /\ data.fields["code"] = Num(<<"0">>)

ValidationFails(body) ==
  \/ body.pixelId \in {Undefined, Null, Str(<<>>), Zero}
  \/ body.accessToken \in {Undefined, Null, Str(<<>>), Zero}
  \/ ~Allowlisted(EventGiven(body))

\* C5: POST /test-track-tiktok answers a validation failure with 400 and a
\* failure of the outbound event-send call (transport error, timeout, or a
\* non-2xx status) with 502; no upstream failure is reported as 400 and no
\* validation failure as 502.
C5_ValidationIs400UpstreamIs502 ==
  (Track /\ pc = "done") =>
    /\ Len(res) = 1
    /\ ValidationFails(req.body) => res[1].status = 400
    /\ (Len(got) = 1 /\ ~Is2xx(got[1])) => res[1].status = 502
    /\ res[1].status = 400 => (ValidationFails(req.body) /\ calls = <<>>)
    /\ res[1].status = 502 =>
         (~ValidationFails(req.body) /\ Len(got) = 1 /\ ~Is2xx(got[1]))

\* C5 witness: the event-send call timed out and the reply is 502.
C5_Witness ==
  /\ Track /\ pc = "done" /\ Len(got) = 1
  /\ got[1].kind = "failure" /\ got[1].code = "ECONNABORTED"
  /\ res[1].status = 502

Probe == route \in {"/tiktok-business-test", "/tiktok-events-test"}

\* the interpretations that report a success
SuccessInterpretations ==
  {Lit("SUCCESS: TikTok API reachable (auth expected)"),
   Lit("SUCCESS: TikTok API reachable"),
   Lit("SUCCESS: Events API reachable (auth/data error expected)")}

\* C6 as stated: for the two marketing-API probes, whenever any HTTP response
\* is received, a 5xx included, the reply is 200 and reports reachable; only
\* a pure transport failure is reported as unreachable, in a reply that
\* still carries the reachable and interpretation fields.
C6_AnyResponseIsReachable ==
  (Probe /\ pc = "done") =>
    IF got[1].kind = "response"
      THEN /\ res[1].status = 200
           /\ res[1].body["reachable"] = TRUE
      ELSE /\ Has(res[1].body, "reachable")
           /\ res[1].body["reachable"] = FALSE
           /\ Has(res[1].body, "interpretation")

\* C6 amended: for the two marketing-API probes, whenever any HTTP response is
\* received the reply is 200 and carries reachable, httpStatus and
\* interpretation, and reachable is true exactly when the status is at least
\* 200 and below 500: a 5xx is reported with reachable = false. A pure
\* transport failure is answered 502 by the global error handler, in a body
\* that carries neither reachable nor interpretation.
C6_ReachableBelow500 ==
  (Probe /\ pc = "done") =>
    /\ Len(calls) = 1 /\ Len(got) = 1 /\ Len(res) = 1
    /\ IF got[1].kind = "response"
         THEN /\ res[1].status = 200
              /\ DOMAIN res[1].body = {"reachable", "httpStatus", "interpretation"}
              /\ res[1].body["httpStatus"] = got[1].status
              /\ res[1].body["reachable"] = (200 <= got[1].status /\ got[1].status <= 499)
         ELSE /\ res[1].status = 502
              /\ ~Has(res[1].body, "reachable")
              /\ ~Has(res[1].body, "interpretation")
              /\ res[1].body["success"] = FALSE

\* C6 witness: the business probe received a 500 and replied 200 with
\* reachable = false.
C6_Witness ==
  /\ route = "/tiktok-business-test" /\ pc = "done"
  /\ got[1].kind = "response" /\ got[1].status = 500
  /\ res[1].status = 200
  /\ res[1].body["reachable"] = FALSE
  /\ res[1].body["interpretation"] = Lit("Server error from TikTok")

\* C7 as stated: for the two marketing-API probes a 401 or 403 is reported as
\* a success (reachable = true with a SUCCESS interpretation), and so is
\* every 2xx.
C7_AuthAnd2xxAreSuccess ==
  (Probe /\ pc = "done" /\ got[1].kind = "response"
     /\ (got[1].status \in {401, 403} \/ Is2xx(got[1]))) =>
    /\ res[1].body["reachable"] = TRUE
    /\ res[1].body["interpretation"] \in SuccessInterpretations

\* C7 amended: for the two marketing-API probes a 401 or 403 is reported as a
\* success (reachable = true with a SUCCESS interpretation); a 2xx is
\* reported reachable = true by both, with a SUCCESS interpretation by
\* /tiktok-business-test and with "Unexpected response" by
\* /tiktok-events-test.
C7_AuthIsSuccess2xxOnBusiness ==
  (Probe /\ pc = "done" /\ got[1].kind = "response") =>
    /\ got[1].status \in {401, 403} =>
         /\ res[1].body["reachable"] = TRUE
         /\ res[1].body["interpretation"] \in SuccessInterpretations
    /\ Is2xx(got[1]) =>
         /\ res[1].body["reachable"] = TRUE
         /\ IF route = "/tiktok-business-test"
              THEN res[1].body["interpretation"] = Lit("SUCCESS: TikTok API reachable")
              ELSE res[1].body["interpretation"] = Lit("Unexpected response")

\* C7 witness: the business probe received a 403 and reports a success.
C7_Witness ==
  /\ route = "/tiktok-business-test" /\ pc = "done"
  /\ got[1].kind = "response" /\ got[1].status = 403
  /\ res[1].body["reachable"] = TRUE
  /\ res[1].body["interpretation"] = Lit("SUCCESS: TikTok API reachable (auth expected)")

\* the first comma-separated entry of chars: its longest prefix without a comma
FirstEntry(chars) ==
  CHOOSE e \in {SubSeq(chars, 1, n) : n \in 0..Len(chars)} :
    /\ \A i \in 1..Len(e) : e[i] # ","
    /\ Len(e) = Len(chars) \/ chars[Len(e) + 1] = ","

\* chars without its leading and trailing blanks: from its first character
\* that is not a blank to its last one
Trimmed(chars) ==
  LET solid == {i \in 1..Len(chars) : chars[i] # " "}
  IN  IF solid = {} THEN <<>>
      ELSE SubSeq(chars, CHOOSE i \in solid : \A j \in solid : i <= j,
                         CHOOSE i \in solid : \A j \in solid : i >= j)

NonEmptyString(v) == v.t = "string" /\ v.s # <<>>

\* the state holds the client IP derived for the request
ClientIPDerived ==
  /\ route \in {"/api/server-info", "/test-track-tiktok"}
  /\ Len(calls) >= 1

\* C8: getClientIP returns the first comma-separated entry of x-forwarded-for,
\* trimmed, when the header is present and that entry is not empty; otherwise
\* the x-real-ip header; otherwise the transport peer address (req.ip, then
\* the socket's remote address); otherwise "unknown". The result is never
\* empty or undefined.
C8_ClientIPPrecedence ==
  ClientIPDerived =>
    LET h == req.headers
        first == IF h.xff = Undefined THEN <<>> ELSE Trimmed(FirstEntry(h.xff.s))
        expected ==
          IF first # <<>> THEN Str(first)
          ELSE IF NonEmptyString(h.xRealIp) THEN h.xRealIp
          ELSE IF NonEmptyString(req.ip) THEN req.ip
          ELSE IF NonEmptyString(req.remoteAddress) THEN req.remoteAddress
          ELSE Lit("unknown")
    IN  /\ locals.clientIP = expected
        /\ NonEmptyString(locals.clientIP)
        /\ Track => calls[1].body.user["ip"] = expected

\* C8 witness: x-forwarded-for is "1 ,1" and the derived IP is "1".
C8_Witness ==
  /\ ClientIPDerived
  /\ req.headers.xff = Str(<<"1", " ", ",">>)
  /\ req.headers.xRealIp = Lit("2.2.2.2")
  /\ locals.clientIP = Str(<<"1">>)

\* C8 witness of the fallbacks: the first entry of x-forwarded-for is blank,
\* there is no x-real-ip, and the peer address is used.
C8_WitnessFallback ==
  /\ ClientIPDerived
  /\ req.headers.xff = Str(<<" ", ",", "1">>)
  /\ req.headers.xRealIp = Undefined
  /\ locals.clientIP = req.ip

\* the sections of the payload on the wire
Sections == {"top", "event", "page", "user", "properties"}

\* the payload of the event-send call, as written on the wire
Wire == calls[1].body

\* the handler of POST /test-track-tiktok has sent its payload and awaits the
\* answer
TrackSent == Track /\ pc = "await" /\ Len(calls) = 1

\* trimmed and lower-cased
Normalized(chars) == toLowerCase(Trimmed(chars))

\* C9: in the outbound payload of POST /test-track-tiktok the raw email and
\* phone of the caller appear in no field; user.email and user.phone_number,
\* when present, hold only the hash of the trimmed, lower-cased input, and
\* inputs that normalize to the same string give the same hash.
C9_OnlyHashedPII ==
  TrackSent =>
    LET body == req.body
        user == Wire.user
        raw == {v.s : v \in {x \in {body.email, body.phone} : NonEmptyString(x)}}
    IN  /\ \A sec \in Sections : \A k \in DOMAIN Wire[sec] : Wire[sec][k].s \notin raw
        /\ Has(user, "email") <=> NonEmptyString(body.email)
        /\ Has(user, "phone_number") <=> NonEmptyString(body.phone)
        /\ Has(user, "email") =>
             /\ user["email"] = Arr1(sha256(Normalized(body.email.s)))
             /\ \A e \in EmailValues :
                  (NonEmptyString(e) /\ Normalized(e.s) = Normalized(body.email.s)) =>
                    user["email"].s = hash(e).s
        /\ Has(user, "phone_number") =>
             /\ user["phone_number"] = Arr1(sha256(Normalized(body.phone.s)))
             /\ \A q \in PhoneValues :
                  (NonEmptyString(q) /\ Normalized(q.s) = Normalized(body.phone.s)) =>
                    user["phone_number"].s = hash(q).s

\* C9 witness: the email " A" was sent as the hash of "a", the hash of the
\* email "a" as well.
C9_Witness ==
  /\ TrackSent
  /\ req.body.email = Str(<<" ", "A">>)
  /\ Wire.user["email"] = Arr1(<<"sha256:", "a">>)
  /\ hash(Str(<<"a">>)).s = Wire.user["email"].s

\* C10: in the outbound payload of POST /test-track-tiktok an optional field
\* appears only if its input was given and never with a null, undefined or
\* empty value: user.locale, user.email, user.phone_number, user.ttclid,
\* user.ttp, page.referrer, properties.currency, properties.value and
\* test_event_code.
C10_SparsePayload ==
  TrackSent =>
    LET body == req.body
        sparse(sec, key, input) ==
          Has(Wire[sec], key) =>
            /\ input # Undefined
            /\ Wire[sec][key] \notin {Undefined, Null, Str(<<>>), Arr1(<<>>)}
    IN  /\ sparse("user", "locale", body.browserData.language)
        /\ sparse("user", "email", body.email)
        /\ sparse("user", "phone_number", body.phone)
        /\ sparse("user", "ttclid", body.ttclid)
        /\ sparse("user", "ttp", body.ttp)
        /\ sparse("page", "referrer", body.browserData.referrer)
        /\ sparse("properties", "currency", body.currency)
        /\ sparse("properties", "value", body.value)
        /\ sparse("top", "test_event_code", body.testEventCode)

\* the field is missing from the request body or falsy there
NotGiven(v) == v \in {Undefined, Null, Str(<<>>), Zero}

\* the two warnings of the handler
MissingCookieWarning ==
  Lit("Missing _ttp cookie - Load TikTok Pixel first for better matching")
NoContactWarning ==
  Lit("No email/phone provided - Event matching may be limited")

\* the warnings the claim expects for a request body, in order
ExpectedWarnings(body) ==
  (IF NotGiven(body.ttp) THEN <<MissingCookieWarning>> ELSE <<>>) \o
  (IF NotGiven(body.email) /\ NotGiven(body.phone) THEN <<NoContactWarning>> ELSE <<>>)

\* the warnings of the 200 reply of POST /test-track-tiktok are the expected
\* ones, the key being absent when there are none
C11_WarningsAdvise ==
  (Track /\ pc = "done" /\ res[1].status = 200) =>
    LET body == req.body
        reply == res[1].body
    IN  /\ MissingCookieWarning # NoContactWarning
        /\ Has(reply, "warnings") <=> ExpectedWarnings(body) # <<>>
        /\ Has(reply, "warnings") => reply["warnings"] = ExpectedWarnings(body)
        /\ (~NotGiven(body.email) /\ ~NotGiven(body.ttp)) => ~Has(reply, "warnings")

\* C11: POST /test-track-tiktok: a request without ttp yields the warning
\* about the missing cookie id, a request with neither email nor phone a
\* second, distinct warning, a request with both email and ttp none (the
\* warnings key is then absent from the reply); and for every request that
\* passes validation the outbound call is made, whatever the number of
\* warnings.
C11_WarningsAdviseAndNeverBlock ==
  /\ C11_WarningsAdvise
  /\ (Track /\ pc # "idle" /\ ~ValidationFails(req.body)) => Len(calls) = 1

\* the request passed validation and was answered 500 without an outbound
\* call
C11_Blocked ==
  /\ Track /\ pc = "done"
  /\ ~ValidationFails(req.body)
  /\ calls = <<>>
  /\ res[1].status = 500

\* a request with two warnings was sent and answered 200 with both warnings
C11_TwoWarnings ==
  /\ Track /\ pc = "done" /\ Len(calls) = 1
  /\ res[1].status = 200
  /\ Has(res[1].body, "warnings")
  /\ Len(res[1].body["warnings"]) = 2

\* the handler of POST /test-track-tiktok has sent its payload
Sent == Track /\ Len(calls) = 1

\* event_id and user.external_id of the payload on the wire
EventIdSent == Wire.event["event_id"]
ExternalIdSent == Wire.user["external_id"]

\* the random suffix of a synthesized identifier
Suffix(id) == id.s[Len(id.s)]

\* the caller's eventId goes out verbatim and the reply echoes what went out
EventIdVerbatimAndEchoed ==
  /\ ~NotGiven(req.body.eventId) => EventIdSent = req.body.eventId
  /\ NotGiven(req.body.eventId) => NonEmptyString(EventIdSent)
  /\ (pc = "done" /\ res[1].status = 200) => res[1].body["eventId"] = EventIdSent

\* C12 as stated: the caller's eventId is used verbatim as event_id of the
\* outbound payload, otherwise a synthesized id is used that differs between
\* any two calls; the eventId echoed in the reply is the event_id sent.
C12_EventIdVerbatimOrUnique ==
  Sent =>
    /\ EventIdVerbatimAndEchoed
    /\ (NotGiven(req.body.eventId) /\ prev.eventId # Undefined) =>
         EventIdSent # prev.eventId

\* C12, amended: the caller's eventId is used verbatim as event_id of the
\* outbound payload, otherwise a synthesized id evt_<Date.now()>_<random> is
\* used; two synthesized ids are equal exactly when they were made in the
\* same millisecond with the same random bytes, so ids made in different
\* milliseconds differ; the eventId echoed in the reply is the event_id sent.
C12_EventIdVerbatimOrStamped ==
  Sent =>
    /\ EventIdVerbatimAndEchoed
    /\ NotGiven(req.body.eventId) =>
         /\ \E rnd \in 1..MaxRand :
              EventIdSent = Str(<<"evt_", ToString(now), "_", ToString(rnd)>>)
         /\ prev.eventId # Undefined =>
              (EventIdSent = prev.eventId <=>
                 (prev.at = now /\ Suffix(EventIdSent) = Suffix(prev.eventId)))

\* C12 witness: a request without eventId was answered 200 with a synthesized
\* id that carries the same random suffix as the id of an earlier request
\* made in another millisecond, and differs from it.
C12_Witness ==
  /\ Sent /\ pc = "done" /\ res[1].status = 200
  /\ NotGiven(req.body.eventId)
  /\ prev.eventId # Undefined /\ prev.at # now
  /\ Suffix(res[1].body["eventId"]) = Suffix(prev.eventId)
  /\ res[1].body["eventId"] # prev.eventId

\* two requests without eventId, served in the same millisecond, sent the
\* same synthesized event_id
C12_SameEventId ==
  /\ Sent /\ NotGiven(req.body.eventId)
  /\ prev.at = now
  /\ EventIdSent = prev.eventId

\* a request with the eventId "e2" sent it as event_id and was answered 200
C12_Verbatim ==
  /\ Sent /\ pc = "done" /\ res[1].status = 200
  /\ req.body.eventId = Lit("e2")
  /\ EventIdSent = Lit("e2")
  /\ res[1].body["eventId"] = Lit("e2")

\* user.external_id is present and non-empty in the payload on the wire and
\* is the hash of the email when an email is supplied
ExternalIdPresentAndHashed ==
  /\ Has(Wire.user, "external_id")
  /\ NonEmptyString(ExternalIdSent)
  /\ NonEmptyString(req.body.email) =>
       ExternalIdSent = Str(sha256(Normalized(req.body.email.s)))

\* C13 as stated: user.external_id of the outbound payload is always present
\* and non-empty; it equals hash(email) whenever an email is supplied, and
\* otherwise it is a synthetic identifier that differs between two calls
\* made without an email.
C13_ExternalIdHashOrUnique ==
  Sent =>
    /\ ExternalIdPresentAndHashed
    /\ (NotGiven(req.body.email) /\ prev.externalId # Undefined) =>
         ExternalIdSent # prev.externalId

\* C13, amended: user.external_id of the outbound payload is always present
\* and non-empty; it equals hash(email) whenever an email is supplied, and
\* otherwise it is user_<random>, never the hash of an email; two such
\* identifiers are equal exactly when their random bytes are equal.
C13_ExternalIdHashOrRandom ==
  Sent =>
    /\ ExternalIdPresentAndHashed
    /\ NotGiven(req.body.email) =>
         /\ \E rnd \in 1..MaxRand : ExternalIdSent = Str(<<"user_", ToString(rnd)>>)
         /\ prev.externalId # Undefined =>
              (ExternalIdSent = prev.externalId <=>
                 Suffix(ExternalIdSent) = Suffix(prev.externalId))

\* C13 witness: a request without email sent a synthetic external_id that
\* differs from the one an earlier request without email sent.
C13_Witness ==
  /\ Sent /\ NotGiven(req.body.email)
  /\ prev.externalId # Undefined
  /\ ExternalIdSent # prev.externalId
  /\ Suffix(ExternalIdSent) # Suffix(prev.externalId)

\* two requests without email sent the same synthetic external_id
C13_SameExternalId ==
  /\ Sent /\ NotGiven(req.body.email)
  /\ ExternalIdSent = prev.externalId

\* the email "A " was sent as external_id = hash of "a"
C13_Hashed ==
  /\ Sent
  /\ req.body.email = Str(<<"A", " ">>)
  /\ ExternalIdSent = Str(<<"sha256:", "a">>)

\* the text occurs in the other, as consecutive pieces
Occurs(text, other) ==
  \E i \in 1..(Len(other) - Len(text) + 1) :
    SubSeq(other, i, i + Len(text) - 1) = text

\* the values of the fields of an upstream body
DataTexts(data) ==
  IF data.t = "object" THEN {data.fields[k] : k \in DOMAIN data.fields} ELSE {}

\* every value that a reply of POST /test-track-tiktok carries, whatever its
\* place in the body (booleans left out)
TextsOf(reply) ==
  LET b == reply.body
      details == b["details"]
      sent == b["payloadSent"]
  IN  (IF Has(b, "error") THEN {b["error"]} ELSE {}) \cup
      (IF Has(b, "details") /\ reply.status = 400
         THEN {details.pixelId, details.accessToken} ELSE {}) \cup
      (IF Has(b, "details") /\ reply.status = 502
         THEN {details.message, details.code} \cup DataTexts(details.tiktokError)
         ELSE {}) \cup
      (IF Has(b, "eventId") THEN {b["eventId"]} ELSE {}) \cup
      (IF Has(b, "warnings")
         THEN {b["warnings"][i] : i \in 1..Len(b["warnings"])} ELSE {}) \cup
      (IF Has(b, "tiktokResponse") THEN DataTexts(b["tiktokResponse"]) ELSE {}) \cup
      (IF Has(b, "payloadSent")
         THEN {sent.event_source, sent.event_source_id, sent.test_event_code,
               sent.event, sent.event_time, sent.event_id, sent.page_url,
               sent.user.ip, sent.user.user_agent, sent.user.external_id,
               sent.user.email, sent.user.phone_number, sent.user.ttp,
               sent.user.ttclid, sent.user.locale}
         ELSE {}) \cup
      (IF Has(b, "help") THEN {b["help"]} ELSE {})

\* the caller's accessToken, email and phone, where given
Secrets(body) == {v \in {body.accessToken, body.email, body.phone} : NonEmptyString(v)}

\* C14: no reply body of POST /test-track-tiktok (the 200 reply with its
\* redacted view of what was sent, the 400 validation reply, the 502 or 500
\* reply of the global error handler) contains the caller's raw accessToken,
\* raw email or raw phone.
C14_NoRawSecretInReply ==
  (Track /\ pc = "done") =>
    /\ Len(res) = 1
    /\ res[1].status \in {200, 400, 500, 502}
    /\ \A secret \in Secrets(req.body) : \A text \in TextsOf(res[1]) :
         ~Occurs(secret.s, text.s)

\* C14 witness: a request with accessToken, email and phone was sent and
\* answered 200 with email and phone_number shown as "HASHED".
C14_Witness ==
  /\ Track /\ pc = "done" /\ res[1].status = 200
  /\ Cardinality(Secrets(req.body)) = 3
  /\ res[1].body["payloadSent"].user.email = Lit("HASHED")
  /\ res[1].body["payloadSent"].user.phone_number = Lit("HASHED")

\* a request with accessToken and email failed upstream with 401 and was
\* answered 502 with the upstream's error body
C14_WitnessUpstreamError ==
  /\ Track /\ pc = "done" /\ res[1].status = 502
  /\ Cardinality(Secrets(req.body)) >= 2
  /\ got[1].status = 401
  /\ res[1].body["details"].tiktokError = got[1].data

\* the outbound calls of the request being served that have not ended yet
InFlight == Len(calls) - Len(got)

\* at most one reply, at most two calls, at most one of them in flight, and a
\* reply exactly when the handler has returned
OneReplyFewCalls ==
  /\ Len(res) <= 1
  /\ Len(calls) <= 2
  /\ InFlight \in {0, 1}
  /\ pc = "await" <=> InFlight = 1
  /\ pc = "await" => res = <<>>
  /\ pc = "done" <=> Len(res) = 1

\* C15: every inbound request to any route, under every combination of
\* outcomes of its outbound calls (success, non-2xx response, timeout or
\* transport error), eventually receives exactly one response, never zero
\* and never two, after at most 2 outbound calls that are issued one after
\* the other, never two in flight at once for the same request.
C15_OneReplyAfterAtMostTwoCalls ==
  /\ []OneReplyFewCalls
  /\ (pc = "await") ~> (pc = "done" /\ Len(res) = 1)

\* C15 witness: GET /ip-check was answered once, with 500, after two calls
\* made one after the other: the first got a non-2xx response, the second
\* timed out.
C15_Witness ==
  /\ IpCheck /\ pc = "done"
  /\ Len(calls) = 2 /\ Len(got) = 2
  /\ got[1].kind = "response" /\ got[1].status = 500
  /\ got[2].kind = "failure" /\ got[2].code = "ECONNABORTED"
  /\ Len(res) = 1 /\ res[1].status = 500

=============================================================================
